---- MODULE Spec2Model ----
(***************************************************************************)
(* Model of the climate dashboard script app.py: load_and_preprocess_data, *)
(* the four plot_* aggregators and the linear script main(), which         *)
(* Streamlit re-executes from its first line on every widget interaction.  *)
(*                                                                         *)
(* Abstractions: text is a tuple of one-character strings; temperatures    *)
(* are integers counting tenths of a degree; a mean is the exact fraction  *)
(* sum/count in lowest terms; lexical order of city and country names is   *)
(* the order of the sorted universe CityNames.                             *)
(***************************************************************************)
EXTENDS Integers, Sequences, FiniteSets, TLC

VARIABLES file, pc, err, df, widgets, year_range, selected_country,
          filtered_df, metrics, yearly, hist, top, monthly, sample, csv,
          loads, runs

vars == <<file, pc, err, df, widgets, year_range, selected_country,
          filtered_df, metrics, yearly, hist, top, monthly, sample, csv,
          loads, runs>>

(***************************************************************************)
(* Bounds of the model.                                                    *)
(***************************************************************************)
MaxRows == 3
MaxRuns == 2
MaxCities == 18

(***************************************************************************)
(* Program constants.                                                      *)
(***************************************************************************)
TopN == 10
SampleSize == 100
\* numpy's quicksort (the default kind of sort_values) sorts a range of at
\* most SmallQuicksort + 1 elements by insertion, which is stable.
SmallQuicksort == 16
Bins == 50

\* Python's None / pandas' NaN, and a present value.
None == <<>>
Some(v) == <<v>>
Get(o) == o[1]

\* The "All" entry that main() puts in front of the country list.
All == "All"

(***************************************************************************)
(* Text helpers.                                                           *)
(***************************************************************************)
DigitChars == <<"0", "1", "2", "3", "4", "5", "6", "7", "8", "9">>

IsDigit(c) == \E i \in 1..10 : DigitChars[i] = c

DigitVal(c) == (CHOOSE i \in 1..10 : DigitChars[i] = c) - 1

AllDigits(s) == \A i \in 1..Len(s) : IsDigit(s[i])

RECURSIVE DigitsVal(_)
DigitsVal(s) ==
  IF s = <<>> THEN 0
  ELSE 10 * DigitsVal(SubSeq(s, 1, Len(s) - 1)) + DigitVal(s[Len(s)])

RECURSIVE Pow10(_)
Pow10(k) == IF k = 0 THEN 1 ELSE 10 * Pow10(k - 1)

RECURSIVE NatDigits(_)
NatDigits(n) ==
  IF n < 10 THEN <<DigitChars[n + 1]>>
  ELSE NatDigits(n \div 10) \o <<DigitChars[(n % 10) + 1]>>

Abs(n) == IF n < 0 THEN -n ELSE n

IndexOf(s, c) ==
  IF \E i \in 1..Len(s) : s[i] = c
  THEN CHOOSE i \in 1..Len(s) : s[i] = c /\ \A j \in 1..(i - 1) : s[j] # c
  ELSE 0

\* s[:-1] : the string without its last character ("" stays "").
StripLast(s) == IF Len(s) = 0 THEN s ELSE SubSeq(s, 1, Len(s) - 1)

\* float(text): optional sign, digits with at most one decimal point and at
\* least one digit.  The value is mant / 10^exp with trailing zeros removed.
RECURSIVE NormDec(_, _)
NormDec(m, e) ==
  IF e > 0 /\ m % 10 = 0 THEN NormDec(m \div 10, e - 1)
  ELSE [mant |-> m, exp |-> e]

ParseUnsigned(s) ==
  LET p == IndexOf(s, ".")
      ip == IF p = 0 THEN s ELSE SubSeq(s, 1, p - 1)
      fp == IF p = 0 THEN <<>> ELSE SubSeq(s, p + 1, Len(s))
  IN IF AllDigits(ip) /\ AllDigits(fp) /\ Len(ip) + Len(fp) > 0
     THEN Some(NormDec(DigitsVal(ip \o fp), Len(fp)))
     ELSE None

ParseFloat(s) ==
  IF Len(s) > 0 /\ s[1] \in {"-", "+"}
  THEN LET u == ParseUnsigned(Tail(s))
       IN IF u = None THEN None
          ELSE IF s[1] = "-"
               THEN Some([mant |-> -Get(u).mant, exp |-> Get(u).exp])
               ELSE u
  ELSE ParseUnsigned(s)

\* pd.to_datetime on an ISO "YYYY-MM-DD" text; any other text is not a date.
DaysIn(m) == IF m = 2 THEN 29 ELSE IF m \in {4, 6, 9, 11} THEN 30 ELSE 31

ParseDate(s) ==
  IF /\ Len(s) = 10
     /\ s[5] = "-"
     /\ s[8] = "-"
     /\ AllDigits(SubSeq(s, 1, 4) \o SubSeq(s, 6, 7) \o SubSeq(s, 9, 10))
  THEN LET y == DigitsVal(SubSeq(s, 1, 4))
           m == DigitsVal(SubSeq(s, 6, 7))
           d == DigitsVal(SubSeq(s, 9, 10))
       IN IF m \in 1..12 /\ d \in 1..DaysIn(m)
          THEN Some([year |-> y, month |-> m, day |-> d])
          ELSE None
  ELSE None

(***************************************************************************)
(* The data source: climate_change_earth.csv as pd.read_csv returns it, or *)
(* None when the file cannot be read.  A raw row has the text columns dt,  *)
(* Latitude, Longitude, City, Country and the float column                 *)
(* AverageTemperature, which is None where the CSV field is empty.         *)
(***************************************************************************)
CityNames == <<"Aba", "Bonn", "Cali", "Doha", "Enna", "Faro", "Gaza",
               "Hilo", "Ivry", "Jena", "Kobe", "Lima", "Metz", "Nice",
               "Oslo", "Pisa", "Qom", "Riga", "Suva", "Tula", "Ufa">>

Rank(names, n) == CHOOSE i \in 1..Len(names) : names[i] = n

D1999 == <<"1", "9", "9", "9", "-", "0", "1", "-", "0", "1">>
D2000 == <<"2", "0", "0", "0", "-", "0", "2", "-", "0", "1">>
DBad == <<"n", "/", "a">>

Lat345N == <<"3", "4", ".", "5", "N">>
Lat345S == <<"3", "4", ".", "5", "S">>
LatNeg7S == <<"-", "7", "S">>
Lat050x == <<"0", ".", "5", "0", "x">>
LatBad == <<"u", "n", "k", "N">>
Lon123W == <<"1", "2", ".", "3", "W">>
Lon123E == <<"1", "2", ".", "3", "E">>

RawRow(d, t, la, lo, ci, co) ==
  [dt |-> d, AverageTemperature |-> t, Latitude |-> la, Longitude |-> lo,
   City |-> ci, Country |-> co]

RawRowPool ==
  { RawRow(D1999, Some(100), Lat345N, Lon123W, "Aba", "X"),
    RawRow(D2000, Some(100), Lat345S, Lon123E, "Bonn", "Y"),
    RawRow(D2000, Some(205), Lat345N, Lon123E, "Aba", "X"),
    RawRow(D1999, None, Lat345N, Lon123W, "Cali", "Y"),
    RawRow(DBad, None, LatBad, Lon123W, "Bonn", "Y"),
    RawRow(DBad, Some(100), Lat345N, Lon123W, "Aba", "X"),
    RawRow(D2000, Some(-15), LatBad, Lon123W, "Bonn", "Y") }

RECURSIVE SeqsUpTo(_, _)
SeqsUpTo(S, n) ==
  IF n = 0 THEN {<<>>}
  ELSE LET shorter == SeqsUpTo(S, n - 1)
       IN shorter \cup {Append(q, x) : q \in {r \in shorter : Len(r) = n - 1}, x \in S}

SmallFiles == SeqsUpTo(RawRowPool, MaxRows)

\* Larger well-formed files: row i is an observation of city ((i-1) mod c)+1.
\* Profile 1: every city has its own temperature; profile 2: cities 2k-1
\* and 2k share one; profile 3: as profile 2 with the pairs shifted by one.
GenTemp(p, k) ==
  IF p = 1 THEN 300 - 10 * k
  ELSE IF p = 2 THEN 10 * ((k + 1) \div 2) - 20
  ELSE 10 * (k \div 2)

GenFile(n, c, p) ==
  [i \in 1..n |->
     LET k == ((i - 1) % c) + 1
     IN RawRow(IF i % 2 = 1 THEN D1999 ELSE D2000, Some(GenTemp(p, k)),
               <<Lat345N, Lat345S, LatNeg7S, Lat050x>>[(i % 4) + 1],
               IF i % 3 = 0 THEN Lon123W ELSE Lon123E,
               CityNames[k], IF k % 2 = 1 THEN "X" ELSE "Y")]

LargeFiles ==
  {GenFile(c, c, p) : c \in (MaxCities - 3)..MaxCities, p \in 1..3}
    \cup {GenFile(SampleSize + 1, 4, 1)}

Files == {None} \cup {Some(f) : f \in SmallFiles \cup LargeFiles}

(***************************************************************************)
(* load_and_preprocess_data                                                *)
(***************************************************************************)
IsNa(x) == x = None

\* pd.read_csv: the frame with its default RangeIndex 0..N-1.
ReadCsv(f) ==
  [i \in 1..Len(f) |->
     [index |-> i - 1, dt |-> f[i].dt,
      AverageTemperature |-> f[i].AverageTemperature,
      Latitude |-> f[i].Latitude, Longitude |-> f[i].Longitude,
      City |-> f[i].City, Country |-> f[i].Country]]

\* Mutant of DropNa: dropna(how='all'), which keeps every row of these files.
DropNaHowAll(rows) == rows

HasTemperature(r) == ~IsNa(r.AverageTemperature)

\* Mutant of ParseCoordinate: the hemisphere letter decides the sign.
ParseCoordinateSigned(s) ==
  LET v == ParseFloat(StripLast(s))
  IN IF v # None /\ Len(s) > 0 /\ s[Len(s)] \in {"S", "W"}
     THEN Some([mant |-> -Get(v).mant, exp |-> Get(v).exp])
     ELSE v

\* df.dropna(subset=['AverageTemperature'], inplace=True)
DropNa(rows) == SelectSeq(rows, HasTemperature)

\* df['Latitude'].str[:-1].astype(float)
ParseCoordinate(s) == ParseFloat(StripLast(s))

\* Lines 15-23 applied to one row that was kept.
CleanRow(r) ==
  LET d == Get(ParseDate(r.dt))
  IN [index |-> r.index, dt |-> d,
      AverageTemperature |-> r.AverageTemperature,
      Year |-> d.year, Month |-> d.month,
      Latitude |-> Get(ParseCoordinate(r.Latitude)),
      Longitude |-> Get(ParseCoordinate(r.Longitude)),
      City |-> r.City, Country |-> r.Country]

RowParses(r) ==
  /\ ParseDate(r.dt) # None
  /\ ParseCoordinate(r.Latitude) # None
  /\ ParseCoordinate(r.Longitude) # None

\* Mutant of load_and_preprocess_data: rows that do not parse are skipped.
load_skipping_bad_rows(f) ==
  IF f = None THEN [error |-> "FileNotFoundError", table |-> None]
  ELSE LET kept == SelectSeq(DropNa(ReadCsv(Get(f))), RowParses)
       IN [error |-> "", table |-> Some([i \in 1..Len(kept) |-> CleanRow(kept[i])])]

\* The outcome of load_and_preprocess_data: the exception it raises ("" for
\* none) and the table it returns.
load_and_preprocess_data(f) ==
  IF f = None THEN [error |-> "FileNotFoundError", table |-> None]
  ELSE LET kept == DropNa(ReadCsv(Get(f)))
       IN IF \E i \in 1..Len(kept) : ParseDate(kept[i].dt) = None
          THEN [error |-> "ValueError", table |-> None]
          ELSE IF \E i \in 1..Len(kept) :
                     \/ ParseCoordinate(kept[i].Latitude) = None
                     \/ ParseCoordinate(kept[i].Longitude) = None
          THEN [error |-> "ValueError", table |-> None]
          ELSE [error |-> "", table |-> Some([i \in 1..Len(kept) |-> CleanRow(kept[i])])]

(***************************************************************************)
(* Aggregation helpers: pandas groupby(...).mean()                         *)
(***************************************************************************)
RECURSIVE Gcd(_, _)
Gcd(a, b) == IF b = 0 THEN a ELSE Gcd(b, a % b)

\* The fraction n/d (d > 0) in lowest terms.
Frac(n, d) ==
  LET g == Gcd(Abs(n), d)
  IN [num |-> n \div g, den |-> d \div g]

FracLess(a, b) == a.num * b.den < b.num * a.den

RECURSIVE SumTemp(_)
SumTemp(rows) ==
  IF rows = <<>> THEN 0
  ELSE Get(rows[1].AverageTemperature) + SumTemp(Tail(rows))

\* Mutant of MeanTemp: the quotient is truncated to a whole number.
MeanTempTruncated(rows) == Frac(SumTemp(rows) \div Len(rows), 1)

\* Series.mean() of the AverageTemperature of a non-empty group.
MeanTemp(rows) == Frac(SumTemp(rows), Len(rows))

\* The elements of a finite set of integers in ascending order.
RECURSIVE Ascending(_)
Ascending(S) ==
  IF S = {} THEN <<>>
  ELSE LET m == CHOOSE x \in S : \A y \in S : x <= y
       IN <<m>> \o Ascending(S \ {m})

\* The sort key of a row for groupby(column): the integer itself for Year
\* and Month, the lexical rank of the name for City.
KeyOf(r, column) ==
  IF column = "City" THEN Rank(CityNames, r.City) ELSE r[column]

\* groupby(column)['AverageTemperature'].mean(): one entry per key present,
\* keys ascending (groupby sorts its keys).
GroupMeanBy(rows, column) ==
  LET keys == Ascending({KeyOf(rows[i], column) : i \in 1..Len(rows)})
  IN [j \in 1..Len(keys) |->
        [key |-> keys[j],
         mean |-> MeanTemp(SelectSeq(rows, LAMBDA r : KeyOf(r, column) = keys[j]))]]

\* df.groupby('Year')['AverageTemperature'].mean()
YearlyMean(rows) == GroupMeanBy(rows, "Year")

\* df.groupby('Month')['AverageTemperature'].mean()
MonthlyMean(rows) == GroupMeanBy(rows, "Month")

\* df.groupby('City')['AverageTemperature'].mean(): cities in lexical order.
CityMean(rows) ==
  LET g == GroupMeanBy(rows, "City")
  IN [j \in 1..Len(g) |-> [key |-> CityNames[g[j].key], mean |-> g[j].mean]]

(***************************************************************************)
(* Series.sort_values(ascending=False).head(10)                            *)
(***************************************************************************)
Min(a, b) == IF a < b THEN a ELSE b

\* .head(n)
HeadRows(s, n) == SubSeq(s, 1, Min(n, Len(s)))

RemoveAt(s, i) == SubSeq(s, 1, i - 1) \o SubSeq(s, i + 1, Len(s))

\* Descending by mean, equal means in the order they had in s.
RECURSIVE StableDescending(_)
StableDescending(s) ==
  IF s = <<>> THEN <<>>
  ELSE LET i == CHOOSE k \in 1..Len(s) :
                  /\ \A j \in 1..Len(s) : ~FracLess(s[k].mean, s[j].mean)
                  /\ \A j \in 1..(k - 1) : s[j].mean # s[k].mean
       IN <<s[i]>> \o StableDescending(RemoveAt(s, i))

RECURSIVE Orderings(_)
Orderings(s) ==
  IF s = <<>> THEN {<<>>}
  ELSE UNION {{<<s[i]>> \o t : t \in Orderings(RemoveAt(s, i))} : i \in 1..Len(s)}

\* Length of the leading run of entries whose mean equals the first one's.
RECURSIVE RunLength(_)
RunLength(s) ==
  IF Len(s) <= 1 THEN Len(s)
  ELSE IF s[2].mean = s[1].mean THEN 1 + RunLength(Tail(s)) ELSE 1

\* Every arrangement of a descending sequence that only reorders equal means.
RECURSIVE TieOrders(_)
TieOrders(s) ==
  IF s = <<>> THEN {<<>>}
  ELSE LET n == RunLength(s)
       IN {a \o b : a \in Orderings(SubSeq(s, 1, n)),
                    b \in TieOrders(SubSeq(s, n + 1, Len(s)))}

\* sort_values(ascending=False) with the default kind='quicksort', which is
\* not a stable sort: beyond the insertion-sort range the order of entries
\* with equal means is not fixed by the source.  The set of possible results.
SortValuesDescending(s) ==
  IF Len(s) <= SmallQuicksort + 1 THEN {StableDescending(s)}
  ELSE TieOrders(StableDescending(s))

\* The possible values of city_avg_temp (line 48).
TopHottestCities(rows) ==
  {HeadRows(o, TopN) : o \in SortValuesDescending(CityMean(rows))}

(***************************************************************************)
(* sns.histplot(..., bins=50): the non-empty buckets with their counts.    *)
(* The buckets split [min, max] into 50 equal widths, the maximum falls in *)
(* the last bucket; min = max is widened to [min - 0.5, max + 0.5]; no     *)
(* rows give no counts.  The density overlay is not modelled.              *)
(***************************************************************************)
BucketOf(v, lo, hi) ==
  IF lo = hi THEN Bins \div 2
  ELSE Min(Bins - 1, ((v - lo) * Bins) \div (hi - lo))

TemperatureHistogram(rows) ==
  IF rows = <<>> THEN <<>>
  ELSE LET vals == {Get(rows[i].AverageTemperature) : i \in 1..Len(rows)}
           lo == CHOOSE x \in vals : \A y \in vals : x <= y
           hi == CHOOSE x \in vals : \A y \in vals : x >= y
           b(r) == BucketOf(Get(r.AverageTemperature), lo, hi)
           used == Ascending({b(rows[i]) : i \in 1..Len(rows)})
       IN [j \in 1..Len(used) |->
             [bucket |-> used[j],
              count |-> Len(SelectSeq(rows, LAMBDA r : b(r) = used[j]))]]

(***************************************************************************)
(* Filter (lines 94-96) and the sidebar's options (lines 82-91)            *)
(***************************************************************************)
InYears(r, yr) == r.Year >= yr[1] /\ r.Year <= yr[2]

\* Mutant of FilterRows: the upper end of the year range is excluded.
FilterRowsExclusive(rows, yr, country) ==
  LET byYear == SelectSeq(rows, LAMBDA r : r.Year >= yr[1] /\ r.Year < yr[2])
  IN IF country # All
     THEN SelectSeq(byYear, LAMBDA r : r.Country = country)
     ELSE byYear

FilterRows(rows, yr, country) ==
  LET byYear == SelectSeq(rows, LAMBDA r : InYears(r, yr))
  IN IF country # All
     THEN SelectSeq(byYear, LAMBDA r : r.Country = country)
     ELSE byYear

Years(rows) == {rows[i].Year : i \in 1..Len(rows)}
MinYear(rows) == CHOOSE y \in Years(rows) : \A z \in Years(rows) : y <= z
MaxYear(rows) == CHOOSE y \in Years(rows) : \A z \in Years(rows) : y >= z

\* What the slider and the selectbox let the user choose for a table.
WidgetChoices(rows) ==
  {w \in {[year_range |-> <<lo, hi>>, country |-> c] :
            lo \in MinYear(rows)..MaxYear(rows),
            hi \in MinYear(rows)..MaxYear(rows),
            c \in {All} \cup {rows[i].Country : i \in 1..Len(rows)}} :
     w.year_range[1] <= w.year_range[2]}

(***************************************************************************)
(* filtered_df.to_csv(index=False) (line 127): a header line and one line  *)
(* per row, each a tuple of fields; numbers are written as decimal text.   *)
(* Quoting of text fields is left to the CSV writer and not modelled.      *)
(***************************************************************************)
Columns == <<"dt", "AverageTemperature", "City", "Country", "Latitude",
             "Longitude", "Year", "Month">>

RECURSIVE PadLeft(_, _)
PadLeft(s, w) == IF Len(s) >= w THEN s ELSE PadLeft(<<"0">> \o s, w)

FormatInt(n) == IF n < 0 THEN <<"-">> \o NatDigits(-n) ELSE NatDigits(n)

\* repr of the float mant / 10^exp: always with a decimal point.
FormatFloat(mant, exp) ==
  LET a == Abs(mant)
      ip == NatDigits(a \div Pow10(exp))
      fp == IF exp = 0 THEN <<"0">> ELSE PadLeft(NatDigits(a % Pow10(exp)), exp)
  IN (IF mant < 0 THEN <<"-">> ELSE <<>>) \o ip \o <<".">> \o fp

\* A temperature counted in tenths of a degree, as the float it stands for.
FormatTemperature(t) ==
  IF IsNa(t) THEN <<>>
  ELSE LET d == NormDec(Get(t), 1) IN FormatFloat(d.mant, d.exp)

FormatDate(d) ==
  PadLeft(NatDigits(d.year), 4) \o <<"-">> \o PadLeft(NatDigits(d.month), 2)
    \o <<"-">> \o PadLeft(NatDigits(d.day), 2)

CsvLine(r) ==
  <<FormatDate(r.dt), FormatTemperature(r.AverageTemperature), r.City,
    r.Country, FormatFloat(r.Latitude.mant, r.Latitude.exp),
    FormatFloat(r.Longitude.mant, r.Longitude.exp), FormatInt(r.Year),
    FormatInt(r.Month)>>

\* Mutant of ToCsv: only the displayed sample is written.
ToCsvOfSample(rows) ==
  <<Columns>> \o [i \in 1..Min(SampleSize, Len(rows)) |-> CsvLine(rows[i])]

ToCsv(rows) == <<Columns>> \o [i \in 1..Len(rows) |-> CsvLine(rows[i])]

\* pd.read_csv of such a text: the numeric columns parsed back, an empty
\* field read as missing.
ColumnOf(name) == Rank(Columns, name)

ReadTemperature(f) ==
  IF ParseFloat(f) = None THEN None
  ELSE LET d == Get(ParseFloat(f))
       IN Some(IF d.exp = 0 THEN d.mant * 10 ELSE d.mant)

ReadInt(f) == IF ParseFloat(f) = None THEN None ELSE Some(Get(ParseFloat(f)).mant)

ReadCsvText(text) ==
  [i \in 1..(Len(text) - 1) |->
     [AverageTemperature |-> ReadTemperature(text[i + 1][ColumnOf("AverageTemperature")]),
      Year |-> ReadInt(text[i + 1][ColumnOf("Year")]),
      Month |-> ReadInt(text[i + 1][ColumnOf("Month")])]]

(***************************************************************************)
(* main(): one execution of the script is the walk start -> ... -> done;   *)
(* an uncaught exception ends it in "error".  Streamlit runs the script    *)
(* again from the top on every interaction (Interaction).                  *)
(***************************************************************************)
Cleared ==
  /\ filtered_df' = None
  /\ metrics' = None
  /\ yearly' = None
  /\ hist' = None
  /\ top' = None
  /\ monthly' = None
  /\ sample' = None
  /\ csv' = None

Init ==
  /\ file \in Files
  /\ pc = "start"
  /\ err = ""
  /\ df = None
  /\ widgets = None
  /\ year_range = None
  /\ selected_country = ""
  /\ filtered_df = None
  /\ metrics = None
  /\ yearly = None
  /\ hist = None
  /\ top = None
  /\ monthly = None
  /\ sample = None
  /\ csv = None
  /\ loads = 0
  /\ runs = 1

\* Lines 74-76: df = load_and_preprocess_data()
Load ==
  /\ pc = "start"
  /\ LET res == load_and_preprocess_data(file)
     IN /\ df' = res.table
        /\ err' = res.error
        /\ pc' = IF res.error = "" THEN "sidebar" ELSE "error"
  /\ loads' = loads + 1
  /\ UNCHANGED <<file, widgets, year_range, selected_country, filtered_df,
                 metrics, yearly, hist, top, monthly, sample, csv, runs>>

\* Lines 78-91: the slider and the selectbox return the user's choice, or
\* their defaults while the user has made none.  int(df['Year'].min()) of a
\* table without rows is int(nan), a ValueError.
Sidebar ==
  /\ pc = "sidebar"
  /\ IF Get(df) = <<>>
     THEN /\ pc' = "error"
          /\ err' = "ValueError"
          /\ UNCHANGED <<year_range, selected_country>>
     ELSE /\ pc' = "filter"
          /\ year_range' = IF widgets = None
                           THEN Some(<<MinYear(Get(df)), MaxYear(Get(df))>>)
                           ELSE Some(Get(widgets).year_range)
          /\ selected_country' = IF widgets = None THEN All
                                 ELSE Get(widgets).country
          /\ UNCHANGED err
  /\ UNCHANGED <<file, df, widgets, filtered_df, metrics, yearly, hist, top,
                 monthly, sample, csv, loads, runs>>

\* Mutant of Filter: the cleaned table itself is narrowed.
FilterInPlace ==
  /\ pc = "filter"
  /\ filtered_df' = Some(FilterRows(Get(df), Get(year_range), selected_country))
  /\ df' = filtered_df'
  /\ pc' = "metrics"
  /\ UNCHANGED <<file, err, widgets, year_range, selected_country, metrics,
                 yearly, hist, top, monthly, sample, csv, loads, runs>>

\* Lines 93-96
Filter ==
  /\ pc = "filter"
  /\ filtered_df' = Some(FilterRows(Get(df), Get(year_range), selected_country))
  /\ pc' = "metrics"
  /\ UNCHANGED <<file, err, df, widgets, year_range, selected_country, metrics,
                 yearly, hist, top, monthly, sample, csv, loads, runs>>

\* Lines 98-105: mean, number of cities, first and last year; the mean and
\* the years of no rows are NaN, which formats without an exception.
KeyMetrics(rows) ==
  [average |-> IF rows = <<>> THEN None ELSE Some(MeanTemp(rows)),
   cities |-> Cardinality({rows[i].City : i \in 1..Len(rows)}),
   first |-> IF rows = <<>> THEN None ELSE Some(MinYear(rows)),
   last |-> IF rows = <<>> THEN None ELSE Some(MaxYear(rows))]

Metrics ==
  /\ pc = "metrics"
  /\ metrics' = Some(KeyMetrics(Get(filtered_df)))
  /\ pc' = "tab1"
  /\ UNCHANGED <<file, err, df, widgets, year_range, selected_country,
                 filtered_df, yearly, hist, top, monthly, sample, csv, loads, runs>>

\* Line 111: plot_yearly_trend(filtered_df)
PlotYearlyTrend ==
  /\ pc = "tab1"
  /\ yearly' = Some(YearlyMean(Get(filtered_df)))
  /\ pc' = "tab2"
  /\ UNCHANGED <<file, err, df, widgets, year_range, selected_country,
                 filtered_df, metrics, hist, top, monthly, sample, csv, loads, runs>>

\* Line 114: plot_temperature_distribution(filtered_df)
PlotTemperatureDistribution ==
  /\ pc = "tab2"
  /\ hist' = Some(TemperatureHistogram(Get(filtered_df)))
  /\ pc' = "tab3"
  /\ UNCHANGED <<file, err, df, widgets, year_range, selected_country,
                 filtered_df, metrics, yearly, top, monthly, sample, csv, loads, runs>>

\* Line 117: plot_top_hottest_cities(filtered_df).  Series.plot(kind='bar')
\* of a Series without entries raises IndexError (pandas reads the first bar
\* position to set the axis limits).
PlotTopHottestCities ==
  /\ pc = "tab3"
  /\ \E t \in TopHottestCities(Get(filtered_df)) :
       IF t = <<>>
       THEN /\ pc' = "error"
            /\ err' = "IndexError"
            /\ UNCHANGED top
       ELSE /\ pc' = "tab4"
            /\ top' = Some(t)
            /\ UNCHANGED err
  /\ UNCHANGED <<file, df, widgets, year_range, selected_country, filtered_df,
                 metrics, yearly, hist, monthly, sample, csv, loads, runs>>

\* Line 120: plot_monthly_trend(filtered_df)
PlotMonthlyTrend ==
  /\ pc = "tab4"
  /\ monthly' = Some(MonthlyMean(Get(filtered_df)))
  /\ pc' = "table"
  /\ UNCHANGED <<file, err, df, widgets, year_range, selected_country,
                 filtered_df, metrics, yearly, hist, top, sample, csv, loads, runs>>

\* Lines 122-124: st.dataframe(filtered_df.head(100))
DataTable ==
  /\ pc = "table"
  /\ sample' = Some(HeadRows(Get(filtered_df), SampleSize))
  /\ pc' = "export"
  /\ UNCHANGED <<file, err, df, widgets, year_range, selected_country,
                 filtered_df, metrics, yearly, hist, top, monthly, csv, loads, runs>>

\* Lines 126-133: csv = filtered_df.to_csv(index=False)
Export ==
  /\ pc = "export"
  /\ csv' = Some(ToCsv(Get(filtered_df)))
  /\ pc' = "done"
  /\ UNCHANGED <<file, err, df, widgets, year_range, selected_country,
                 filtered_df, metrics, yearly, hist, top, monthly, sample, loads, runs>>

\* A widget interaction (or a manual rerun): Streamlit executes main() again
\* from its first line with the widget values the user now has.  The values
\* can change only if the previous run got as far as drawing the sidebar.
Interaction ==
  /\ pc \in {"done", "error"}
  /\ runs < MaxRuns
  /\ IF year_range # None
     THEN \E w \in WidgetChoices(Get(df)) : widgets' = Some(w)
     ELSE UNCHANGED widgets
  /\ pc' = "start"
  /\ err' = ""
  /\ df' = None
  /\ year_range' = None
  /\ selected_country' = ""
  /\ Cleared
  /\ runs' = runs + 1
  /\ UNCHANGED <<file, loads>>

Next ==
  \/ Load
  \/ Sidebar
  \/ Filter
  \/ Metrics
  \/ PlotYearlyTrend
  \/ PlotTemperatureDistribution
  \/ PlotTopHottestCities
  \/ PlotMonthlyTrend
  \/ DataTable
  \/ Export
  \/ Interaction

Spec == Init /\ [][Next]_vars

(***************************************************************************)
(* Properties                                                              *)
(***************************************************************************)
Matches(r, yr, country) ==
  /\ yr[1] <= r.Year
  /\ r.Year <= yr[2]
  /\ (country = All \/ r.Country = country)

RowsOf(t) == {t[i] : i \in 1..Len(t)}

IndexAscending(t) == \A i \in 1..(Len(t) - 1) : t[i].index < t[i + 1].index

\* C1: the filtered table is exactly the rows of the cleaned table whose Year
\* lies in the inclusive range and, unless "All" is selected, whose Country
\* is the selected one, in their original order, none dropped, none added.
C1_FilterExact ==
  filtered_df # None =>
    LET f == Get(filtered_df)
        d == Get(df)
    IN /\ \A i \in 1..Len(d) :
            Matches(d[i], Get(year_range), selected_country) <=> d[i] \in RowsOf(f)
       /\ RowsOf(f) \subseteq RowsOf(d)
       /\ IndexAscending(f)

C1_Witness ==
  /\ filtered_df # None
  /\ selected_country # All
  /\ Get(year_range)[1] = Get(year_range)[2]
  /\ Len(Get(filtered_df)) > 0
  /\ \E r \in RowsOf(Get(df)) : r.Country = selected_country /\ r \notin RowsOf(Get(filtered_df))
  /\ \E r \in RowsOf(Get(df)) : InYears(r, Get(year_range)) /\ r \notin RowsOf(Get(filtered_df))

MissingRows(f) == {i \in 1..Len(f) : f[i].AverageTemperature = None}

\* C2: a loaded table has exactly the N-k rows of the file that have a
\* temperature, in file order, and no row of the cleaned table, of a
\* filtered table or of the displayed sample lacks a temperature.
C2_LoaderDropsMissing ==
  /\ df # None =>
       LET raw == Get(file)
           d == Get(df)
       IN /\ Len(d) = Len(raw) - Cardinality(MissingRows(raw))
          /\ IndexAscending(d)
          /\ \A i \in 1..Len(d) :
               /\ d[i].index + 1 \in (1..Len(raw)) \ MissingRows(raw)
               /\ d[i].AverageTemperature = raw[d[i].index + 1].AverageTemperature
               /\ d[i].City = raw[d[i].index + 1].City
  /\ filtered_df # None =>
       \A r \in RowsOf(Get(filtered_df)) : r.AverageTemperature # None
  /\ sample # None =>
       \A r \in RowsOf(Get(sample)) : r.AverageTemperature # None

C2_Witness ==
  /\ df # None
  /\ Cardinality(MissingRows(Get(file))) = 1
  /\ Len(Get(df)) = 2
  /\ sample # None
  /\ Len(Get(sample)) > 0

\* C3: a filter that matches no row does not end the run in an error.
C3_EmptyResultCompletes ==
  (filtered_df # None /\ Get(filtered_df) = <<>>) => pc # "error"

CitiesOf(rows) == {rows[i].City : i \in 1..Len(rows)}

MeanOfCity(rows, c) == MeanTemp(SelectSeq(rows, LAMBDA r : r.City = c))

TopIsHottest(t, rows) ==
  /\ Len(t) = Min(TopN, Cardinality(CitiesOf(rows)))
  /\ \A j \in 1..Len(t) :
       /\ t[j].key \in CitiesOf(rows)
       /\ t[j].mean = MeanOfCity(rows, t[j].key)
       /\ \A c \in CitiesOf(rows) \ {t[k].key : k \in 1..Len(t)} :
            ~FracLess(t[j].mean, MeanOfCity(rows, c))
  /\ \A j \in 1..Len(t), k \in 1..Len(t) :
       j < k => ~FracLess(t[j].mean, t[k].mean)

TiesLexical(t) ==
  \A j \in 1..Len(t), k \in 1..Len(t) :
    (j < k /\ t[j].mean = t[k].mean)
      => Rank(CityNames, t[j].key) < Rank(CityNames, t[k].key)

\* C4: the hottest-cities output has min(10, cities) entries, no omitted city
\* is hotter than a listed one, means descend, and equal means appear in
\* lexical order of the city names.
C4_TopHottestCities ==
  top # None =>
    /\ TopIsHottest(Get(top), Get(filtered_df))
    /\ TiesLexical(Get(top))

\* The part of C4 that does not depend on the order of equal means.
TopHottestCitiesUpToTies ==
  top # None => TopIsHottest(Get(top), Get(filtered_df))

RECURSIVE SumAt(_, _)
SumAt(rows, S) ==
  IF S = {} THEN 0
  ELSE LET i == CHOOSE x \in S : TRUE
       IN Get(rows[i].AverageTemperature) + SumAt(rows, S \ {i})

\* C5: the yearly trend has one entry per year present in the filtered
\* table and no other, years strictly ascending, each mean the sum of that
\* year's temperatures divided by their number.
C5_YearlyTrend ==
  yearly # None =>
    LET y == Get(yearly)
        f == Get(filtered_df)
    IN /\ {y[j].key : j \in 1..Len(y)} = Years(f)
       /\ \A j \in 1..(Len(y) - 1) : y[j].key < y[j + 1].key
       /\ \A j \in 1..Len(y) :
            LET S == {i \in 1..Len(f) : f[i].Year = y[j].key}
            IN /\ y[j].mean.den > 0
               /\ y[j].mean.num * Cardinality(S) = SumAt(f, S) * y[j].mean.den

C5_Witness ==
  /\ yearly # None
  /\ Len(Get(yearly)) = 1
  /\ Get(year_range)[1] < Get(yearly)[1].key
  /\ \E r1 \in RowsOf(Get(filtered_df)), r2 \in RowsOf(Get(filtered_df)) :
       r1.AverageTemperature # r2.AverageTemperature

\* C6: once loaded, the cleaned table is not changed by the filter, the
\* metrics, the aggregators, the sample or the export of that run, and the
\* steps after the filter leave the filtered table unchanged.
C6_CleanedTableImmutable ==
  [][/\ (df # None /\ pc' # "start") => df' = df
     /\ (filtered_df # None /\ pc' # "start") => filtered_df' = filtered_df]_vars

C6_Witness ==
  /\ pc = "done"
  /\ csv # None
  /\ Len(Get(filtered_df)) > 0
  /\ Len(Get(filtered_df)) < Len(Get(df))
  /\ Len(Get(df)) = Len(Get(file)) - Cardinality(MissingRows(Get(file)))

RowsWithTemperature(f) == (1..Len(f)) \ MissingRows(f)

BadCoordinates(r) ==
  \/ ParseFloat(StripLast(r.Latitude)) = None
  \/ ParseFloat(StripLast(r.Longitude)) = None

LoadFailed ==
  /\ pc = "error"
  /\ err \in {"FileNotFoundError", "ValueError"}
  /\ df = None
  /\ year_range = None
  /\ filtered_df = None
  /\ metrics = None /\ yearly = None /\ hist = None /\ top = None
  /\ monthly = None /\ sample = None /\ csv = None

BadForLoad ==
  \/ file = None
  \/ \E i \in RowsWithTemperature(Get(file)) :
       ParseDate(Get(file)[i].dt) = None \/ BadCoordinates(Get(file)[i])

C8_ExportRoundTrip ==
  csv # None =>
    LET text == Get(csv)
        f == Get(filtered_df)
        back == ReadCsvText(text)
    IN /\ text[1] = Columns
       /\ \A i \in 1..Len(f) : DOMAIN f[i] = RowsOf(Columns) \cup {"index"}
       /\ Len(back) = Len(f)
       /\ \A i \in 1..Len(f) :
            /\ back[i].AverageTemperature = f[i].AverageTemperature
            /\ back[i].Year = Some(f[i].Year)
            /\ back[i].Month = Some(f[i].Month)

C8_Witness ==
  /\ csv # None
  /\ Len(Get(filtered_df)) > SampleSize
  /\ Len(Get(sample)) = SampleSize
  /\ Len(Get(csv)) = Len(Get(filtered_df)) + 1

ExpectedCoordinate(s) ==
  CASE s \in {Lat345N, Lat345S} -> [mant |-> 345, exp |-> 1]
    [] s \in {Lon123W, Lon123E} -> [mant |-> 123, exp |-> 1]
    [] s = LatNeg7S -> [mant |-> -7, exp |-> 0]
    [] s = Lat050x -> [mant |-> 5, exp |-> 1]

\* C9: a loaded coordinate is the number written before the final character
\* of its text, whatever that character is, so texts that differ only in
\* the final letter give the same value.
C9_CoordinateParsing ==
  df # None =>
    LET d == Get(df)
        raw(r) == Get(file)[r.index + 1]
    IN /\ \A r \in RowsOf(d) :
            /\ r.Latitude = ExpectedCoordinate(raw(r).Latitude)
            /\ r.Longitude = ExpectedCoordinate(raw(r).Longitude)
       /\ \A r1 \in RowsOf(d), r2 \in RowsOf(d) :
            StripLast(raw(r1).Longitude) = StripLast(raw(r2).Longitude)
              => r1.Longitude = r2.Longitude

C9_Witness ==
  /\ df # None
  /\ \E r1 \in RowsOf(Get(df)), r2 \in RowsOf(Get(df)) :
       /\ Get(file)[r1.index + 1].Longitude = Lon123W
       /\ Get(file)[r2.index + 1].Longitude = Lon123E
       /\ r1.Longitude = [mant |-> 123, exp |-> 1]
       /\ Get(file)[r1.index + 1].Latitude = LatNeg7S

\* C10: in one session load_and_preprocess_data is executed once, however
\* many times the filters are changed.
C10_LoaderRunsOnce == df # None => loads = 1

====
